---------------------------- MODULE Spec2Model ----------------------------
(***************************************************************************)
(* A model of apod_desktop.py: one invocation of main() per run, against   *)
(* an image directory and its SQLite metadata store that persist between   *)
(* runs.                                                                   *)
(*                                                                         *)
(* Strings that the code takes apart (URLs, paths) are sequences of        *)
(* one-character strings; the other strings are TLA+ strings.              *)
(***************************************************************************)
EXTENDS Naturals, Sequences, FiniteSets

VARIABLES
    pc,        \* the statement of main() that runs next, or how the run ended
    run,       \* number of invocations of the script so far
    argv,      \* sys.argv of the current invocation
    db,        \* the SQLite file at db_path: [file, master, rows]
    fs,        \* the image directory: [dirs, files, writes]
    loc,       \* the local variables of main()
    calls,     \* the functions the current run has called, in order
    fetchErr,  \* the current run got a malformed date or a non-200 response
    lookup,    \* the last call of image_already_in_db: hash, store, outcome
    carried,   \* per content hash, the number of runs that reached line 55
    store0,    \* the rows of the store before the first run
    runRows,   \* the rows of the store when the current run started
    pathCalls  \* the calls of get_image_path made so far: url, dir, outcome

vars == <<pc, run, argv, db, fs, loc, calls, fetchErr, lookup, carried,
          store0, runRows, pathCalls>>

---------------------------------------------------------------------------
(* Bounds *)

MaxRuns == 2
MaxMsgLen == 1
MaxInitRows == 1
MaxUrlLen == 2
MaxPathCalls == 3

---------------------------------------------------------------------------
(* Values *)

\* An optional value: None, or Some(v).
None == <<>>
Some(v) == <<v>>

RECURSIVE SeqsUpTo(_, _)
SeqsUpTo(S, n) ==
    IF n = 0 THEN {<<>>}
    ELSE LET shorter == SeqsUpTo(S, n - 1)
         IN shorter \cup {Append(s, x) : s \in {t \in shorter : Len(t) = n - 1}, x \in S}

\* Bodies of HTTP responses: byte strings.
Bytes == {0, 1}
Contents == SeqsUpTo(Bytes, MaxMsgLen)

\* HTTP status codes the two requests may answer with.
Statuses == {200, 404}

\* The directory named on the command line: one that exists, one that does not.
image_dir == <<"d">>
missing_dir == <<"x">>

\* Date arguments: the separator typed and the three fields.
Today == [sep |-> "-", y |-> 2022, m |-> 4, d |-> 27]
DateArgs ==
    { [sep |-> "-", y |-> 2022, m |-> 3, d |-> 11],
      [sep |-> "/", y |-> 2022, m |-> 3, d |-> 11],
      [sep |-> "-", y |-> 2022, m |-> 13, d |-> 1],
      [sep |-> "-", y |-> 2022, m |-> 4, d |-> 31] }

\* sys.argv: the script name, then the directory, then the date.
Argvs ==
    {<<"apod_desktop.py">>}
    \cup {<<"apod_desktop.py", p>> : p \in {image_dir, missing_dir}}
    \cup {<<"apod_desktop.py", p, a>> : p \in {image_dir, missing_dir}, a \in DateArgs}

---------------------------------------------------------------------------
(* Library functions the script calls *)

\* datetime.strptime(apod_date, '%Y-%m-%d'): TRUE when the text parses,
\* FALSE when it raises ValueError.
IsLeap(y) == (y % 4 = 0 /\ y % 100 # 0) \/ y % 400 = 0
DaysIn(y, m) ==
    IF m = 2 THEN (IF IsLeap(y) THEN 29 ELSE 28)
    ELSE IF m \in {4, 6, 9, 11} THEN 30 ELSE 31
strptime(a) ==
    /\ a.sep = "-"
    /\ a.y \in 1..9999
    /\ a.m \in 1..12
    /\ a.d \in 1..DaysIn(a.y, a.m)

\* s.split('/'): the texts between the slashes; ''.split('/') is [''].
RECURSIVE split(_)
split(s) ==
    IF s = <<>> THEN << <<>> >>
    ELSE LET init == split(SubSeq(s, 1, Len(s) - 1))
             c == s[Len(s)]
         IN IF c = "/" THEN Append(init, <<>>)
            ELSE [init EXCEPT ![Len(init)] = Append(@, c)]

\* os.path.join(a, b) on a POSIX system.
join(a, b) ==
    IF b # <<>> /\ b[1] = "/" THEN b
    ELSE IF a = <<>> \/ a[Len(a)] = "/" THEN a \o b
    ELSE a \o <<"/">> \o b

\* The path without its trailing slashes: 'd/' names what 'd' names.
RECURSIVE Normal(_)
Normal(p) ==
    IF Len(p) > 1 /\ p[Len(p)] = "/" THEN Normal(SubSeq(p, 1, Len(p) - 1)) ELSE p

\* os.path.dirname of a normal path.
RECURSIVE dirname(_)
dirname(p) ==
    IF p = <<>> THEN <<>>
    ELSE IF p[Len(p)] = "/" THEN Normal(p)
    ELSE dirname(SubSeq(p, 1, Len(p) - 1))

isdir(f, p) == Normal(p) \in f.dirs
isfile(f, p) == Normal(p) \in DOMAIN f.files

\* os.mkdir(p)
mkdir(f, p) ==
    IF isdir(f, p) \/ isfile(f, p) THEN [raised |-> "FileExistsError", fs |-> f]
    ELSE IF ~isdir(f, dirname(Normal(p))) THEN [raised |-> "FileNotFoundError", fs |-> f]
    ELSE [raised |-> "none", fs |-> [f EXCEPT !.dirs = @ \cup {Normal(p)}]]

\* hashlib.sha256(msg): a digest object, one per byte string; TypeError on None.
sha256(msg) ==
    IF msg = None THEN [raised |-> "TypeError", value |-> None]
    ELSE [raised |-> "none", value |-> Some([digest |-> msg[1]])]

\* The text a digest is stored under in the sha256 column.
hexdigest(c) == <<"sha256", c>>

\* sqlite3.connect(db_path): opens the file, creating it when absent.
connect(d) == [d EXCEPT !.file = TRUE]

HasTable(d, name) == \E i \in 1..Len(d.master) : d.master[i].name = name
TableColumns(d, name) ==
    LET i == CHOOSE j \in 1..Len(d.master) : d.master[j].name = name
    IN d.master[i].columns

\* cursor.execute of a CREATE TABLE statement. Python's sqlite3 opens no
\* transaction for it, so the table is in the file without a commit.
execute_create(d, stmt) ==
    IF HasTable(d, stmt.name)
    THEN IF stmt.if_not_exists THEN [raised |-> "none", db |-> d]
         ELSE [raised |-> "OperationalError", db |-> d]
    ELSE [raised |-> "none",
          db |-> [d EXCEPT !.master =
                      Append(@, [name |-> stmt.name, columns |-> stmt.columns])]]

\* cursor.execute of SELECT ... FROM t WHERE column = operand. An operand
\* that is a bare name must be a column of t: SQLite refuses the statement
\* otherwise ("no such column").
execute_select(d, stmt) ==
    IF ~HasTable(d, stmt.from)
    THEN [raised |-> "OperationalError", rows |-> <<>>]
    ELSE IF stmt.operand.kind = "name"
            /\ stmt.operand.name \notin TableColumns(d, stmt.from)
    THEN [raised |-> "OperationalError", rows |-> <<>>]
    ELSE [raised |-> "none",
          rows |-> SelectSeq(d.rows,
                     LAMBDA r : r[stmt.column] =
                        IF stmt.operand.kind = "name" THEN r[stmt.operand.name]
                        ELSE stmt.operand.value)]

---------------------------------------------------------------------------
(* The functions of apod_desktop.py *)

\* 'https://apod.nasa.gov/apod/astropix.html'
image_url ==
    <<
       "h", "t", "t", "p", "s", ":", "/", "/", "a", "p", "o", "d", ".",
       "n", "a", "s", "a", ".", "g", "o", "v", "/", "a", "p", "o", "d",
       "/", "a", "s", "t", "r", "o", "p", "i", "x", ".", "h", "t", "m",
       "l"
    >>

\* 'apod_images.db'
db_name == <<"a", "p", "o", "d", "_", "i", "m", "a", "g", "e", "s", ".", "d", "b">>

\* exit(...) is [exit |-> TRUE]; a return is [exit |-> FALSE, value |-> ...].
get_image_dir_path(av, f) ==
    IF Len(av) >= 2
    THEN IF isdir(f, av[2]) THEN [exit |-> FALSE, value |-> av[2]]
         ELSE [exit |-> TRUE, value |-> <<>>]
    ELSE [exit |-> TRUE, value |-> <<>>]

get_apod_date(av) ==
    IF Len(av) >= 3
    THEN IF strptime(av[3]) THEN [exit |-> FALSE, value |-> Some(av[3])]
         ELSE [exit |-> TRUE, value |-> None]
    ELSE [exit |-> FALSE, value |-> Some(Today)]

\* get_image_path taking the first text of the split, not the last.
get_image_path_first(f, url, dir_path) ==
    LET parts == split(url)
        image_link == parts[1]
        img_dir == join(dir_path, image_link)
    IN IF ~isdir(f, img_dir)
       THEN LET made == mkdir(f, img_dir)
            IN [raised |-> made.raised, fs |-> made.fs,
                value |-> IF made.raised = "none" THEN Some(img_dir) ELSE None]
       ELSE [raised |-> "none", fs |-> f, value |-> Some(img_dir)]

get_image_path(f, url, dir_path) ==
    LET parts == split(url)
        image_link == parts[Len(parts)]
        img_dir == join(dir_path, image_link)
    IN IF ~isdir(f, img_dir)
       THEN LET made == mkdir(f, img_dir)
            IN [raised |-> made.raised, fs |-> made.fs,
                value |-> IF made.raised = "none" THEN Some(img_dir) ELSE None]
       ELSE [raised |-> "none", fs |-> f, value |-> Some(img_dir)]

\* The dictionary of request parameters, or None on a status other than 200.
get_apod_info(date, status) ==
    IF status = 200 THEN Some([date |-> date, thumbs |-> "True"]) ELSE None

\* The body of the response, or None on a status other than 200.
download_apod_image(status, content) ==
    IF status = 200 THEN Some(content) ELSE None

\* return #TODO
save_image_file(f, image_msg, image_path) == f

apodTable ==
    [name |-> "apod_images", if_not_exists |-> TRUE,
     columns |-> {"date", "size", "sha256", "downloaded_at"}]

\* create_image_db with a statement that lacks IF NOT EXISTS.
create_image_db_plain(d) ==
    execute_create(connect(d), [apodTable EXCEPT !.if_not_exists = FALSE])

create_image_db(d) == execute_create(connect(d), apodTable)

\* return #TODO
add_image_to_db(d, image_path, image_size, image_sha256) == d

\* "SELECT date FROM apod_images WHERE sha256 = image_sha256": the operand is
\* the name image_sha256 written in the statement, not the function's argument.
selectStatement ==
    [text |-> "SELECT date FROM apod_images WHERE sha256 = image_sha256",
     from |-> "apod_images", column |-> "sha256",
     operand |-> [kind |-> "name", name |-> "image_sha256"]]

\* "True", "False", or the exception that execute raises. The test after
\* execute is of the statement's text, not of the rows it found.
image_already_in_db(d, image_sha256) ==
    LET found == execute_select(connect(d), selectStatement)
    IN IF found.raised # "none" THEN found.raised
       ELSE IF selectStatement.text # "" THEN "True" ELSE "False"

\* return #TODO
set_desktop_background_image(f, image_path) == f

---------------------------------------------------------------------------
(* The state before the first run *)

EmptyDb == [file |-> FALSE, master |-> <<>>, rows |-> <<>>]

\* A row of apod_images for content c.
RowOf(c) ==
    [date |-> Today, size |-> Len(c), sha256 |-> hexdigest(c), downloaded_at |-> 0]

\* The store the first run finds: no file yet, or a file that holds the
\* table of create_image_db and the rows of earlier downloads.
InitDbs ==
    {EmptyDb}
    \cup { [file |-> TRUE,
            master |-> <<[name |-> apodTable.name, columns |-> apodTable.columns]>>,
            rows |-> rs] : rs \in SeqsUpTo({RowOf(c) : c \in Contents}, MaxInitRows) }

\* The image directory exists and holds no image yet.
InitFs == [dirs |-> {image_dir}, files |-> <<>>, writes |-> <<>>]

NoLocals ==
    [image_dir_path |-> <<>>, db_path |-> <<>>, apod_date |-> None,
     apod_info_dict |-> None, image_msg |-> None, image_sha256 |-> None,
     image_size |-> None, image_path |-> None]

NoLookup == [called |-> FALSE, hash |-> None, rows |-> <<>>, result |-> "none"]

Init ==
    /\ pc = "idle"
    /\ run = 0
    /\ argv = <<>>
    /\ db \in InitDbs
    /\ fs = InitFs
    /\ loc = NoLocals
    /\ calls = <<>>
    /\ fetchErr = FALSE
    /\ lookup = NoLookup
    /\ carried = [c \in Contents |-> 0]
    /\ store0 = db.rows
    /\ runRows = db.rows
    /\ pathCalls = <<>>

---------------------------------------------------------------------------
(* One action per statement of main() *)

Ended == {"idle", "returned", "exited", "raised"}

\* python apod_desktop.py image_dir_path [apod_date]
Invoke ==
    /\ pc \in Ended
    /\ run < MaxRuns
    /\ \E av \in Argvs : argv' = av
    /\ run' = run + 1
    /\ pc' = "get_image_dir_path"
    /\ loc' = NoLocals
    /\ calls' = <<>>
    /\ fetchErr' = FALSE
    /\ runRows' = db.rows
    /\ UNCHANGED <<db, fs, lookup, carried, store0, pathCalls>>

\* lines 32-33
GetImageDirPath ==
    /\ pc = "get_image_dir_path"
    /\ LET r == get_image_dir_path(argv, fs)
       IN /\ pc' = IF r.exit THEN "exited" ELSE "get_apod_date"
          /\ loc' = IF r.exit THEN loc
                    ELSE [loc EXCEPT !.image_dir_path = r.value,
                                     !.db_path = join(r.value, db_name)]
    /\ calls' = Append(calls, "get_image_dir_path")
    /\ UNCHANGED <<run, argv, db, fs, fetchErr, lookup, carried, store0, runRows,
                   pathCalls>>

\* line 36
GetApodDate ==
    /\ pc = "get_apod_date"
    /\ LET r == get_apod_date(argv)
       IN /\ pc' = IF r.exit THEN "exited" ELSE "create_image_db"
          /\ loc' = [loc EXCEPT !.apod_date = r.value]
          /\ fetchErr' = r.exit
    /\ calls' = Append(calls, "get_apod_date")
    /\ UNCHANGED <<run, argv, db, fs, lookup, carried, store0, runRows, pathCalls>>

\* line 39
CreateImageDb ==
    /\ pc = "create_image_db"
    /\ LET r == create_image_db(db)
       IN /\ db' = r.db
          /\ pc' = IF r.raised = "none" THEN "get_apod_info" ELSE "raised"
    /\ calls' = Append(calls, "create_image_db")
    /\ UNCHANGED <<run, argv, fs, loc, fetchErr, lookup, carried, store0, runRows,
                   pathCalls>>

\* line 42: the result is stored and the run goes on, whatever the status.
GetApodInfo ==
    /\ pc = "get_apod_info"
    /\ \E status \in Statuses :
          /\ loc' = [loc EXCEPT !.apod_info_dict = get_apod_info(loc.apod_date[1], status)]
          /\ fetchErr' = (fetchErr \/ status # 200)
    /\ pc' = "download_apod_image"
    /\ calls' = Append(calls, "get_apod_info")
    /\ UNCHANGED <<run, argv, db, fs, lookup, carried, store0, runRows, pathCalls>>

\* lines 45-46
DownloadApodImage ==
    /\ pc = "download_apod_image"
    /\ \E status \in Statuses, content \in Contents :
          /\ loc' = [loc EXCEPT !.image_msg = download_apod_image(status, content)]
          /\ fetchErr' = (fetchErr \/ status # 200)
    /\ pc' = "sha256"
    /\ calls' = Append(calls, "download_apod_image")
    /\ UNCHANGED <<run, argv, db, fs, lookup, carried, store0, runRows, pathCalls>>

\* lines 47-48: sha256(None) raises TypeError, which nothing catches.
HashAndSize ==
    /\ pc = "sha256"
    /\ LET h == sha256(loc.image_msg)
       IN IF h.raised # "none"
          THEN /\ pc' = "raised"
               /\ loc' = loc
          ELSE /\ pc' = "get_image_path"
               /\ loc' = [loc EXCEPT !.image_sha256 = h.value,
                                     !.image_size = Some(Len(loc.image_msg[1]))]
    /\ calls' = Append(calls, "sha256")
    /\ UNCHANGED <<run, argv, db, fs, fetchErr, lookup, carried, store0, runRows,
                   pathCalls>>

\* lines 49-52
GetImagePath ==
    /\ pc = "get_image_path"
    /\ LET r == get_image_path(fs, image_url, loc.image_dir_path)
       IN /\ fs' = r.fs
          /\ loc' = [loc EXCEPT !.image_path = r.value]
          /\ pc' = IF r.raised = "none" THEN "image_already_in_db" ELSE "raised"
    /\ calls' = calls \o <<"get_image_path", "print_apod_info">>
    /\ UNCHANGED <<run, argv, db, fetchErr, lookup, carried, store0, runRows,
                   pathCalls>>

\* lines 55-60: the check, the two writes it guards, and the background.
\* An exception of the check ends the run before any of the rest.
CacheImage ==
    /\ pc = "image_already_in_db"
    /\ LET known == image_already_in_db(db, loc.image_sha256[1])
           returns == known \in {"True", "False"}
           persist == known = "False"
           content == loc.image_msg[1]
           fs1 == IF persist
                  THEN save_image_file(fs, loc.image_msg[1], loc.image_path[1])
                  ELSE fs
       IN /\ fs' = IF returns THEN set_desktop_background_image(fs1, loc.image_path[1])
                   ELSE fs1
          /\ db' = IF persist
                   THEN add_image_to_db(db, loc.image_path[1], loc.image_size[1],
                                        loc.image_sha256[1])
                   ELSE db
          /\ calls' = calls \o <<"image_already_in_db">>
                        \o (IF persist THEN <<"save_image_file", "add_image_to_db">>
                            ELSE <<>>)
                        \o (IF returns THEN <<"set_desktop_background_image">>
                            ELSE <<>>)
          /\ pc' = IF returns THEN "returned" ELSE "raised"
          /\ lookup' = [called |-> TRUE, hash |-> Some(hexdigest(content)),
                        rows |-> db.rows, result |-> known]
          /\ carried' = [carried EXCEPT ![content] = @ + 1]
    /\ UNCHANGED <<run, argv, loc, fetchErr, store0, runRows, pathCalls>>

Next ==
    \/ Invoke
    \/ GetImageDirPath
    \/ GetApodDate
    \/ CreateImageDb
    \/ GetApodInfo
    \/ DownloadApodImage
    \/ HashAndSize
    \/ GetImagePath
    \/ CacheImage

Spec == Init /\ [][Next]_vars

---------------------------------------------------------------------------
(* get_image_path on its own: any URL, against a directory that persists *)

UrlChars == {"a", "/"}
Urls == SeqsUpTo(UrlChars, MaxUrlLen)

\* The directory as a caller may find it: empty, or with a regular file in it.
InitPathFs ==
    {InitFs,
     [InitFs EXCEPT !.files = [p \in {join(image_dir, <<"a">>)} |-> <<0>>]]}

InitPath ==
    /\ pc = "idle"
    /\ run = 0
    /\ argv = <<>>
    /\ db = EmptyDb
    /\ fs \in InitPathFs
    /\ loc = NoLocals
    /\ calls = <<>>
    /\ fetchErr = FALSE
    /\ lookup = NoLookup
    /\ carried = [c \in Contents |-> 0]
    /\ store0 = <<>>
    /\ runRows = <<>>
    /\ pathCalls = <<>>

CallGetImagePath ==
    /\ Len(pathCalls) < MaxPathCalls
    /\ \E url \in Urls :
          LET r == get_image_path(fs, url, image_dir)
          IN /\ fs' = r.fs
             /\ pathCalls' = Append(pathCalls,
                                [url |-> url, dir |-> image_dir, existed |-> r.fs = fs,
                                 raised |-> r.raised, value |-> r.value])
    /\ UNCHANGED <<pc, run, argv, db, loc, calls, fetchErr, lookup, carried, store0,
                   runRows>>

NextPath == CallGetImagePath

SpecPath == InitPath /\ [][NextPath]_vars

---------------------------------------------------------------------------
(* What the claims speak of *)

\* The number of rows whose sha256 column holds h.
CountRows(rows, h) == Len(SelectSeq(rows, LAMBDA r : r.sha256 = h))

\* The number of times a file was written with the bytes c.
WritesOf(c) == Len(SelectSeq(fs.writes, LAMBDA w : w.data = c))

\* The positions in the current run's calls at which f was called.
CallsOf(f) == {i \in 1..Len(calls) : calls[i] = f}
Called(f) == CallsOf(f) # {}

\* The number of apod_images tables in a store.
TableCount(d) == Cardinality({i \in 1..Len(d.master) : d.master[i].name = apodTable.name})

\* The calls of get_image_path that returned a path.
Returned == {i \in 1..Len(pathCalls) : pathCalls[i].raised = "none"}
TerminalSegment(url) == split(url)[Len(split(url))]

IsPrefix(s, t) == Len(s) <= Len(t) /\ SubSeq(t, 1, Len(s)) = s

---------------------------------------------------------------------------
(* The claims *)

\* C1: when two or more runs reach the cache step with the same content,
\* whose hash the store did not hold at first, then once the run has ended
\* the file was written exactly once and the store holds exactly one row
\* with that hash.
C1_IdempotentPersist ==
    \A c \in Contents :
        (CountRows(store0, hexdigest(c)) = 0 /\ carried[c] >= 2 /\ pc \in Ended)
            => (WritesOf(c) = 1 /\ CountRows(db.rows, hexdigest(c)) = 1)

\* C2: a call of image_already_in_db answers True only for a hash that the
\* store holds a row for, and answers False for every hash it holds none for.
C2_LookupCorrect ==
    lookup.called =>
        LET persisted == CountRows(lookup.rows, lookup.hash[1]) > 0
        IN /\ lookup.result = "True" => persisted
           /\ ~persisted => lookup.result = "False"

\* C4: a run that reached the cache step with content whose hash the store
\* did not hold when the run began has, once ended, written the bytes to the
\* image path and added exactly one row, with the content's size and hash.
C4_FirstPersist ==
    (pc \in Ended /\ Called("image_already_in_db")
        /\ CountRows(runRows, hexdigest(loc.image_msg[1])) = 0)
    => /\ loc.image_path[1] \in DOMAIN fs.files
       /\ fs.files[loc.image_path[1]] = loc.image_msg[1]
       /\ Len(db.rows) = Len(runRows) + 1
       /\ \E i \in 1..Len(db.rows) :
             /\ db.rows[i].size = loc.image_size[1]
             /\ db.rows[i].sha256 = hexdigest(loc.image_msg[1])

\* C5: a call of image_already_in_db for a hash that the store holds a row
\* for answers True.
C5_NoFalseNegative ==
    (lookup.called /\ CountRows(lookup.rows, lookup.hash[1]) > 0)
        => lookup.result = "True"

C7_FetcherErrorsTerminate ==
    fetchErr =>
        /\ ~Called("image_already_in_db")
        /\ ~Called("save_image_file")
        /\ ~Called("add_image_to_db")
        /\ ~Called("set_desktop_background_image")

\* C8: create_image_db never raises, leaves exactly one apod_images table,
\* and leaves the rows of a table that was already there as they were.
C8_SchemaIdempotent ==
    [][pc = "create_image_db" =>
          /\ pc' = "get_apod_info"
          /\ TableCount(db') = 1
          /\ (HasTable(db, apodTable.name) => db'.rows = db.rows)]_vars

\* C8 witness: create_image_db has returned in a run that follows a run which
\* got past it too, against a table that holds rows.
C8_Witness ==
    /\ pc = "get_apod_info"
    /\ \E c \in Contents : carried[c] >= 1
    /\ Len(db.rows) > 0
    /\ TableCount(db) = 1

\* C9: the rows only grow, the rows there stay as they are, and every content
\* that a run downloaded and brought to the cache step has exactly one row
\* once that run has ended.
C9_RecordLifecycle ==
    /\ IsPrefix(store0, db.rows)
    /\ \A c \in Contents :
          (carried[c] >= 1 /\ pc \in Ended) => CountRows(db.rows, hexdigest(c)) = 1

\* C10: in a run that reached the lookup and has ended, create_image_db came
\* before the lookup, no file write or insert came before the lookup, and
\* set_desktop_background_image was called exactly once, after the lookup.
C10_StepOrdering ==
    (pc \in Ended /\ Called("image_already_in_db")) =>
        /\ \A k \in CallsOf("image_already_in_db") :
              /\ \E i \in CallsOf("create_image_db") : i < k
              /\ \A i \in CallsOf("save_image_file") \cup CallsOf("add_image_to_db") : k < i
        /\ Cardinality(CallsOf("set_desktop_background_image")) = 1
        /\ \A i \in CallsOf("set_desktop_background_image") :
              \A k \in CallsOf("image_already_in_db") : k < i

============================================================================
